---------------------------- MODULE Spec2Model ----------------------------
(***************************************************************************)
(* Request handlers of my_ecommerce_app/store/views.py as a state machine. *)
(* The state is the database tables the viewsets read and write, the last  *)
(* request dispatched and the response it got.  One action is one request  *)
(* handled from dispatch to response (permission check, queryset, handler  *)
(* body, ORM call), except in SpecRace where ProductViewSet.destroy is     *)
(* split at the point between its count query and its delete.              *)
(*                                                                         *)
(* models.py, serializers.py and permissions.py are not part of the        *)
(* sources at hand; what the handlers need of them is modelled from the    *)
(* specification and marked so in the comments.                            *)
(***************************************************************************)
EXTENDS Integers, FiniteSets, Sequences, TLC

VARIABLES
    products,     \* Product rows      [id, collection]
    collections,  \* Collection rows   [id, title]
    reviews,      \* Review rows       [id, product, text]
    carts,        \* Cart rows (their ids)
    cartItems,    \* CartItem rows     [id, cart, product, quantity]
    customers,    \* Customer rows     [id, user, phone]
    orders,       \* Order rows        [id, customer, payment_status]
    orderItems,   \* OrderItem rows    [order, product], one per line of an order
    nextId,       \* per table: the next auto-increment primary key
    request,      \* the last request dispatched
    response,     \* the response it was answered with
    pending       \* SpecRace: per worker, the product destroy that is past its count query

tables == <<products, collections, reviews, carts, cartItems, customers, orders, orderItems, nextId>>
vars == <<products, collections, reviews, carts, cartItems, customers, orders, orderItems, nextId,
          request, response, pending>>

-----------------------------------------------------------------------------
(* Bounds of the model *)

MaxProducts == 2       \* Product rows ever inserted
MaxCollections == 2    \* Collection rows ever inserted
MaxOrders == 2         \* Order rows ever inserted
MaxCustomers == 3      \* Customer rows ever inserted
MaxNestedRows == 2     \* Review and CartItem rows ever inserted, together

ProductIds == 1..MaxProducts
CollectionIds == 1..MaxCollections
OrderIds == 1..MaxOrders
CustomerIds == 1..MaxCustomers
CartItemIds == 1..MaxNestedRows
ReviewIds == 1..MaxNestedRows
NestedParents == {1, 2, 3}              \* product_pk and cart_pk of the nested routes

Workers == {1, 2}                       \* request workers of SpecRace
Anon == "anon"
Users == {"u1", "u2", "admin"}          \* authenticated accounts
Callers == Users \cup {Anon}
Staff == {"admin"}                      \* accounts with is_staff
HistoryPerm == {"u2", "admin"}          \* accounts holding store.view_history
Titles == {"a", "b"}
Phones == {"p", "q"}
Statuses == {"P", "C"}
Quantities == {1, 2}

-----------------------------------------------------------------------------
(* HTTP statuses and bodies *)

HTTP_200_OK == 200
HTTP_201_CREATED == 201
HTTP_204_NO_CONTENT == 204
HTTP_400_BAD_REQUEST == 400
HTTP_403_FORBIDDEN == 403
HTTP_404_NOT_FOUND == 404
HTTP_405_METHOD_NOT_ALLOWED == 405
HTTP_500_SERVER_ERROR == 500

ProductError == "Can't delete products as it contains one or more order items."
CollectionError == "Can't delete collection as it contains one or more products."
Placeholder == "not implemented yet"

Req(view, method, user, parent, pk, data) ==
    [view |-> view, method |-> method, user |-> user, parent |-> parent, pk |-> pk, data |-> data]

Resp(status, kind, body) == [status |-> status, kind |-> kind, body |-> body]

\* A permission class refused the request (401/403 of the framework).
Denied == Resp(HTTP_403_FORBIDDEN, "detail", "denied")
NotFound == Resp(HTTP_404_NOT_FOUND, "detail", "not found")
BadRequest == Resp(HTTP_400_BAD_REQUEST, "detail", "invalid")
MethodNotAllowed == Resp(HTTP_405_METHOD_NOT_ALLOWED, "detail", "method not allowed")
\* An exception no handler catches: the framework answers 500 and the
\* request's transaction leaves the tables as they were.
ServerError(exc) == Resp(HTTP_500_SERVER_ERROR, "exception", exc)

Row(table, pk) == CHOOSE r \in table : r.id = pk
Exists(table, pk) == \E r \in table : r.id = pk

-----------------------------------------------------------------------------
(* Permission classes *)

SafeMethods == {"GET", "HEAD", "OPTIONS"}

AllowAny(u) == TRUE
IsAuthenticated(u) == u # Anon
IsAdminUser(u) == u \in Staff
\* permissions.py (modelled from the specification: reads are open, writes are the admin's)
IsAdminOrReadOnly(method, u) == method \in SafeMethods \/ u \in Staff
\* permissions.py (modelled from the specification: the view-customer-history permission)
ViewCustomerHistoryPermission(u) == u \in HistoryPerm

-----------------------------------------------------------------------------
(* Initial state: an empty store in which the accounts u1 and u2 have their *)
(* customer records and the admin account has none.                         *)

NoDestroy == [pk |-> 0, user |-> Anon]

Init ==
    /\ products = {}
    /\ collections = {}
    /\ reviews = {}
    /\ carts = {}
    /\ cartItems = {}
    /\ customers = {[id |-> 1, user |-> "u1", phone |-> "p"], [id |-> 2, user |-> "u2", phone |-> "p"]}
    /\ orders = {}
    /\ orderItems = {}
    /\ nextId = [products |-> 1, collections |-> 1, reviews |-> 1, carts |-> 1,
                 cartItems |-> 1, customers |-> 3, orders |-> 1]
    /\ request = Req("none", "NONE", Anon, 0, 0, <<>>)
    /\ response = Resp(0, "none", "")
    /\ pending = [w \in Workers |-> NoDestroy]

Respond(req, resp) == request' = req /\ response' = resp

\* A request that is answered without touching the database.
Answer(req, resp) == Respond(req, resp) /\ UNCHANGED tables

NoContent == Resp(HTTP_204_NO_CONTENT, "empty", "")

-----------------------------------------------------------------------------
(* ProductViewSet *)

ProductData == [collection : CollectionIds]

\* serializers.py ProductSerializer (modelled from the specification: a
\* product belongs to a collection, so its collection must be an existing row)
ProductValid(data) == Exists(collections, data.collection)

ProductCreate(u, data) ==
    LET req == Req("products", "POST", u, 0, 0, data)
        id == nextId.products
    IN  /\ id <= MaxProducts
        /\ IF ~IsAdminOrReadOnly("POST", u) THEN Answer(req, Denied)
           ELSE IF ~ProductValid(data) THEN Answer(req, BadRequest)
           ELSE LET row == [id |-> id, collection |-> data.collection]
                IN  /\ products' = products \cup {row}
                    /\ nextId' = [nextId EXCEPT !.products = id + 1]
                    /\ Respond(req, Resp(HTTP_201_CREATED, "ProductSerializer", row))
                    /\ UNCHANGED <<collections, reviews, carts, cartItems, customers, orders, orderItems>>
        /\ UNCHANGED pending

ProductUpdate(u, pk, data) ==
    LET req == Req("products", "PUT", u, 0, pk, data)
    IN  /\ IF ~IsAdminOrReadOnly("PUT", u) THEN Answer(req, Denied)
           ELSE IF ~Exists(products, pk) THEN Answer(req, NotFound)
           ELSE IF ~ProductValid(data) THEN Answer(req, BadRequest)
           ELSE LET row == [id |-> pk, collection |-> data.collection]
                IN  /\ products' = (products \ {Row(products, pk)}) \cup {row}
                    /\ Respond(req, Resp(HTTP_200_OK, "ProductSerializer", row))
                    /\ UNCHANGED <<collections, reviews, carts, cartItems, customers, orders,
                                   orderItems, nextId>>
        /\ UNCHANGED pending

\* OrderItem.objects.filter(product_id=kwargs["pk"]).count() > 0
ProductDestroyGuardAlwaysFalse(pk) == FALSE
ProductDestroyGuard(pk) == Cardinality({oi \in orderItems : oi.product = pk}) > 0

\* models.py (modelled from the specification: a product cannot be deleted
\* while an order item references it): the foreign key of OrderItem protects
\* the product, so deleting it raises ProtectedError.
ProductProtectedNever(pk) == FALSE
ProductProtected(pk) == \E oi \in orderItems : oi.product = pk

\* super().destroy(): get_object(), then instance.delete(); the reviews and
\* cart items of the product go with it.
ProductSuperDestroy(req, pk) ==
    IF ~Exists(products, pk) THEN Answer(req, NotFound)
    ELSE IF ProductProtected(pk) THEN Answer(req, ServerError("ProtectedError"))
    ELSE /\ products' = products \ {Row(products, pk)}
         /\ reviews' = {r \in reviews : r.product # pk}
         /\ cartItems' = {ci \in cartItems : ci.product # pk}
         /\ Respond(req, NoContent)
         /\ UNCHANGED <<collections, carts, customers, orders, orderItems, nextId>>

ProductDestroy(u, pk) ==
    LET req == Req("products", "DELETE", u, 0, pk, <<>>)
    IN  /\ IF ~IsAdminOrReadOnly("DELETE", u) THEN Answer(req, Denied)
           ELSE IF ProductDestroyGuard(pk)
                THEN Answer(req, Resp(HTTP_405_METHOD_NOT_ALLOWED, "error", ProductError))
           ELSE ProductSuperDestroy(req, pk)
        /\ UNCHANGED pending

-----------------------------------------------------------------------------
(* CollectionViewSet *)

CollectionData == [title : Titles]

CollectionCreate(u, data) ==
    LET req == Req("collections", "POST", u, 0, 0, data)
        id == nextId.collections
    IN  /\ id <= MaxCollections
        /\ IF ~IsAdminOrReadOnly("POST", u) THEN Answer(req, Denied)
           ELSE LET row == [id |-> id, title |-> data.title]
                IN  /\ collections' = collections \cup {row}
                    /\ nextId' = [nextId EXCEPT !.collections = id + 1]
                    /\ Respond(req, Resp(HTTP_201_CREATED, "CollectionSerializer", row))
                    /\ UNCHANGED <<products, reviews, carts, cartItems, customers, orders, orderItems>>
        /\ UNCHANGED pending

CollectionUpdate(u, pk, data) ==
    LET req == Req("collections", "PUT", u, 0, pk, data)
    IN  /\ IF ~IsAdminOrReadOnly("PUT", u) THEN Answer(req, Denied)
           ELSE IF ~Exists(collections, pk) THEN Answer(req, NotFound)
           ELSE LET row == [id |-> pk, title |-> data.title]
                IN  /\ collections' = (collections \ {Row(collections, pk)}) \cup {row}
                    /\ Respond(req, Resp(HTTP_200_OK, "CollectionSerializer", row))
                    /\ UNCHANGED <<products, reviews, carts, cartItems, customers, orders,
                                   orderItems, nextId>>
        /\ UNCHANGED pending

\* Collection.objects.count("products"): QuerySet.count() takes no argument
\* besides self, so the call raises TypeError before any row is counted.
\* nargs is the number of positional arguments the call passes.
ManagerCount(nargs) ==
    IF nargs = 0 THEN [raises |-> FALSE, value |-> Cardinality(collections)]
    ELSE [raises |-> TRUE, value |-> 0]

\* super().destroy() of a collection; models.py (modelled from the
\* specification): a product references its collection and protects it.
CollectionSuperDestroy(req, pk) ==
    IF ~Exists(collections, pk) THEN Answer(req, NotFound)
    ELSE IF \E p \in products : p.collection = pk THEN Answer(req, ServerError("ProtectedError"))
    ELSE /\ collections' = collections \ {Row(collections, pk)}
         /\ Respond(req, NoContent)
         /\ UNCHANGED <<products, reviews, carts, cartItems, customers, orders, orderItems, nextId>>

CollectionDestroy(u, pk) ==
    LET req == Req("collections", "DELETE", u, 0, pk, <<>>)
        count == ManagerCount(1)
    IN  /\ IF ~IsAdminOrReadOnly("DELETE", u) THEN Answer(req, Denied)
           ELSE IF count.raises THEN Answer(req, ServerError("TypeError"))
           ELSE IF count.value > 0
                THEN Answer(req, Resp(HTTP_405_METHOD_NOT_ALLOWED, "error", CollectionError))
           ELSE CollectionSuperDestroy(req, pk)
        /\ UNCHANGED pending

-----------------------------------------------------------------------------
(* CustomerViewSet *)

CustomerData == [user : Users, phone : Phones \cup {"bad"}]

\* get_permissions(): the method alone decides, for every action of the viewset
CustomerGetPermissions(method, u) ==
    IF method = "GET" THEN AllowAny(u) ELSE IsAuthenticated(u)

\* The permission_classes the viewset and its @action decorators declare.
CustomerDeclaredPermission(action, u) ==
    CASE action = "customers/me" -> IsAuthenticated(u)
      [] action = "customers/history" -> ViewCustomerHistoryPermission(u)
      [] OTHER -> IsAdminUser(u)

\* serializers.py CustomerSerializer (modelled from the specification: the
\* profile fields are validated, the user of a record is not writable on update)
CustomerValid(data) == data.phone \in Phones

CustomerSerializer(c) == [id |-> c.id, user |-> c.user, phone |-> c.phone]

CustomerCreate(u, data) ==
    LET req == Req("customers", "POST", u, 0, 0, data)
        id == nextId.customers
    IN  /\ id <= MaxCustomers
        /\ IF ~CustomerGetPermissions("POST", u) THEN Answer(req, Denied)
           ELSE IF ~CustomerValid(data) \/ (\E c \in customers : c.user = data.user)
                THEN Answer(req, BadRequest)
           ELSE LET row == [id |-> id, user |-> data.user, phone |-> data.phone]
                IN  /\ customers' = customers \cup {row}
                    /\ nextId' = [nextId EXCEPT !.customers = id + 1]
                    /\ Respond(req, Resp(HTTP_201_CREATED, "CustomerSerializer", CustomerSerializer(row)))
                    /\ UNCHANGED <<products, collections, reviews, carts, cartItems, orders, orderItems>>
        /\ UNCHANGED pending

CustomerRetrieve(u, pk) ==
    LET req == Req("customers", "GET", u, 0, pk, <<>>)
    IN  /\ IF ~CustomerGetPermissions("GET", u) THEN Answer(req, Denied)
           ELSE IF ~Exists(customers, pk) THEN Answer(req, NotFound)
           ELSE Answer(req, Resp(HTTP_200_OK, "CustomerSerializer", CustomerSerializer(Row(customers, pk))))
        /\ UNCHANGED pending

CustomerUpdate(u, pk, data) ==
    LET req == Req("customers", "PUT", u, 0, pk, data)
    IN  /\ IF ~CustomerGetPermissions("PUT", u) THEN Answer(req, Denied)
           ELSE IF ~Exists(customers, pk) THEN Answer(req, NotFound)
           ELSE IF ~CustomerValid(data) THEN Answer(req, BadRequest)
           ELSE LET row == [Row(customers, pk) EXCEPT !.phone = data.phone]
                IN  /\ customers' = (customers \ {Row(customers, pk)}) \cup {row}
                    /\ Respond(req, Resp(HTTP_200_OK, "CustomerSerializer", CustomerSerializer(row)))
                    /\ UNCHANGED <<products, collections, reviews, carts, cartItems, orders,
                                   orderItems, nextId>>
        /\ UNCHANGED pending

\* models.py (modelled from the specification: an order belongs to its
\* customer and an order item to its order, so they go with it)
CustomerDestroy(u, pk) ==
    LET req == Req("customers", "DELETE", u, 0, pk, <<>>)
        gone == {o.id : o \in {x \in orders : x.customer = pk}}
    IN  /\ IF ~CustomerGetPermissions("DELETE", u) THEN Answer(req, Denied)
           ELSE IF ~Exists(customers, pk) THEN Answer(req, NotFound)
           ELSE /\ customers' = customers \ {Row(customers, pk)}
                /\ orders' = {o \in orders : o.id \notin gone}
                /\ orderItems' = {oi \in orderItems : oi.order \notin gone}
                /\ Respond(req, NoContent)
                /\ UNCHANGED <<products, collections, reviews, carts, cartItems, nextId>>
        /\ UNCHANGED pending

\* Customer.objects.get(user_id=request.user.id): the rows the lookup matches
\* (none: DoesNotExist; the anonymous user has id None and matches none)
MeCustomerAny(u) == customers
MeCustomer(u) == {c \in customers : c.user = u}

\* me(): GET and PUT on /customers/me/
Me(u, method, data) ==
    LET req == Req("customers/me", method, u, 0, 0, data)
        found == MeCustomer(u)
    IN  /\ IF ~CustomerGetPermissions(method, u) THEN Answer(req, Denied)
           ELSE IF found = {} THEN Answer(req, ServerError("DoesNotExist"))
           ELSE LET customer == CHOOSE c \in found : TRUE
                IN  IF method = "GET"
                    THEN Answer(req, Resp(HTTP_200_OK, "CustomerSerializer", CustomerSerializer(customer)))
                    ELSE IF ~CustomerValid(data) THEN Answer(req, BadRequest)
                    ELSE LET row == [customer EXCEPT !.phone = data.phone]
                         IN  /\ customers' = (customers \ {customer}) \cup {row}
                             /\ Respond(req, Resp(HTTP_200_OK, "CustomerSerializer", CustomerSerializer(row)))
                             /\ UNCHANGED <<products, collections, reviews, carts, cartItems,
                                            orders, orderItems, nextId>>
        /\ UNCHANGED pending

\* history(): GET on /customers/{pk}/history/; the handler never looks pk up
History(u, pk) ==
    LET req == Req("customers/history", "GET", u, 0, pk, <<>>)
    IN  /\ IF ~CustomerGetPermissions("GET", u) THEN Answer(req, Denied)
           ELSE Answer(req, Resp(HTTP_200_OK, "text", Placeholder))
        /\ UNCHANGED pending

-----------------------------------------------------------------------------
(* OrderViewSet *)

OrderMethods == {"GET", "POST", "PATCH", "DELETE", "HEAD", "OPTIONS"}   \* http_method_names

\* get_permissions()
OrderGetPermissions(method, u) ==
    IF method \in {"PATCH", "DELETE"} THEN IsAdminUser(u) ELSE IsAuthenticated(u)

\* The checkout payload names the lines to order.
CheckoutData == [lines : SUBSET ProductIds]
OrderUpdateData == [payment_status : Statuses \cup {"bad"}]

\* serializers.py CreateOrderSerializer (modelled from the specification: a
\* valid checkout has at least one line and every line is a product of the store)
CheckoutValid(data) ==
    /\ data.lines # {}
    /\ \A p \in data.lines : Exists(products, p)

\* serializers.py OrderSerializer: the full representation of an order
OrderSerializer(o, items) ==
    [id |-> o.id, customer |-> o.customer, payment_status |-> o.payment_status,
     items |-> {oi.product : oi \in {x \in items : x.order = o.id}}]

\* create(): the body and status of the answer to a checkout that was saved
OrderCreateResponseInputShape(order, items, data) ==
    Resp(HTTP_201_CREATED, "CreateOrderSerializer", data)
OrderCreateResponse(order, items, data) ==
    Resp(HTTP_201_CREATED, "OrderSerializer", OrderSerializer(order, items))

\* create(): CreateOrderSerializer(data, context={"user_id": user.id}),
\* is_valid(raise_exception=True), save().  serializers.py save() (modelled
\* from the specification): one order for the customer of context["user_id"],
\* one order item per line, in one transaction; it fails with DoesNotExist
\* when that user has no customer record.
OrderCreate(u, data) ==
    LET req == Req("orders", "POST", u, 0, 0, data)
        id == nextId.orders
        owner == {c \in customers : c.user = u}
    IN  /\ id <= MaxOrders
        /\ IF ~OrderGetPermissions("POST", u) THEN Answer(req, Denied)
           ELSE IF ~CheckoutValid(data) THEN Answer(req, BadRequest)
           ELSE IF owner = {} THEN Answer(req, ServerError("DoesNotExist"))
           ELSE LET order == [id |-> id, customer |-> (CHOOSE c \in owner : TRUE).id,
                              payment_status |-> "P"]
                    items == {[order |-> id, product |-> p] : p \in data.lines}
                IN  /\ orders' = orders \cup {order}
                    /\ orderItems' = orderItems \cup items
                    /\ nextId' = [nextId EXCEPT !.orders = id + 1]
                    /\ Respond(req, OrderCreateResponse(order, orderItems', data))
                    /\ UNCHANGED <<products, collections, reviews, carts, cartItems, customers>>
        /\ UNCHANGED pending

\* get_queryset(): every order for staff, else the orders of the customer
\* record of the user; raises DoesNotExist when the user has none.
OrderQuerysetAll(u) == [raises |-> FALSE, rows |-> orders]
OrderQueryset(u) ==
    IF u \in Staff THEN [raises |-> FALSE, rows |-> orders]
    ELSE LET found == {c \in customers : c.user = u}
         IN  IF found = {} THEN [raises |-> TRUE, rows |-> {}]
             ELSE LET customer_id == CHOOSE c \in found : TRUE
                  IN  [raises |-> FALSE,
                       rows |-> {o \in orders : o.customer = customer_id.id}]

OrderList(u) ==
    LET req == Req("orders", "GET", u, 0, 0, <<>>)
        qs == OrderQueryset(u)
    IN  /\ IF ~OrderGetPermissions("GET", u) THEN Answer(req, Denied)
           ELSE IF qs.raises THEN Answer(req, ServerError("DoesNotExist"))
           ELSE Answer(req, Resp(HTTP_200_OK, "OrderSerializer.many",
                                 {OrderSerializer(o, orderItems) : o \in qs.rows}))
        /\ UNCHANGED pending

OrderRetrieve(u, pk) ==
    LET req == Req("orders", "GET", u, 0, pk, <<>>)
        qs == OrderQueryset(u)
    IN  /\ IF ~OrderGetPermissions("GET", u) THEN Answer(req, Denied)
           ELSE IF qs.raises THEN Answer(req, ServerError("DoesNotExist"))
           ELSE IF ~Exists(qs.rows, pk) THEN Answer(req, NotFound)
           ELSE Answer(req, Resp(HTTP_200_OK, "OrderSerializer",
                                 OrderSerializer(Row(qs.rows, pk), orderItems)))
        /\ UNCHANGED pending

\* partial_update(): PATCH with UpdateOrderSerializer (serializers.py,
\* modelled from the specification: the payment status is what an update sets)
OrderUpdate(u, pk, data) ==
    LET req == Req("orders", "PATCH", u, 0, pk, data)
        qs == OrderQueryset(u)
    IN  /\ IF ~OrderGetPermissions("PATCH", u) THEN Answer(req, Denied)
           ELSE IF qs.raises THEN Answer(req, ServerError("DoesNotExist"))
           ELSE IF ~Exists(qs.rows, pk) THEN Answer(req, NotFound)
           ELSE IF data.payment_status \notin Statuses THEN Answer(req, BadRequest)
           ELSE LET row == [Row(qs.rows, pk) EXCEPT !.payment_status = data.payment_status]
                IN  /\ orders' = (orders \ {Row(qs.rows, pk)}) \cup {row}
                    /\ Respond(req, Resp(HTTP_200_OK, "UpdateOrderSerializer",
                                         [payment_status |-> row.payment_status]))
                    /\ UNCHANGED <<products, collections, reviews, carts, cartItems, customers,
                                   orderItems, nextId>>
        /\ UNCHANGED pending

\* destroy(); models.py (modelled from the specification: an order item
\* belongs to its order and goes with it)
OrderDestroy(u, pk) ==
    LET req == Req("orders", "DELETE", u, 0, pk, <<>>)
        qs == OrderQueryset(u)
    IN  /\ IF ~OrderGetPermissions("DELETE", u) THEN Answer(req, Denied)
           ELSE IF qs.raises THEN Answer(req, ServerError("DoesNotExist"))
           ELSE IF ~Exists(qs.rows, pk) THEN Answer(req, NotFound)
           ELSE /\ orders' = orders \ {Row(qs.rows, pk)}
                /\ orderItems' = {oi \in orderItems : oi.order # pk}
                /\ Respond(req, NoContent)
                /\ UNCHANGED <<products, collections, reviews, carts, cartItems, customers, nextId>>
        /\ UNCHANGED pending

\* PUT is not among http_method_names: refused after the permission check
OrderPut(u, pk) ==
    LET req == Req("orders", "PUT", u, 0, pk, <<>>)
    IN  /\ IF ~OrderGetPermissions("PUT", u) THEN Answer(req, Denied)
           ELSE IF "PUT" \notin OrderMethods THEN Answer(req, MethodNotAllowed)
           ELSE Answer(req, Resp(HTTP_200_OK, "OrderSerializer", <<>>))
        /\ UNCHANGED pending

-----------------------------------------------------------------------------
(* ReviewViewSet: /products/{product_pk}/reviews/ *)

\* Rows inserted so far in the tables behind the nested routes.
NestedRows == (nextId.reviews - 1) + (nextId.cartItems - 1)

Texts == {"x", "y"}
ReviewData == [text : Texts]

\* get_queryset(): Review.objects.filter(product_id=self.kwargs["product_pk"])
ReviewQuerysetAll(product_pk) == reviews
ReviewQueryset(product_pk) == {r \in reviews : r.product = product_pk}

\* get_serializer_context()
ReviewSerializerContext(product_pk) == [product_id |-> product_pk]

\* serializers.py ReviewSerializer: the representation names no product
ReviewSerializer(r) == [id |-> r.id, text |-> r.text]

ReviewList(u, product_pk) ==
    LET req == Req("reviews", "GET", u, product_pk, 0, <<>>)
    IN  /\ Answer(req, Resp(HTTP_200_OK, "ReviewSerializer.many",
                            {ReviewSerializer(r) : r \in ReviewQueryset(product_pk)}))
        /\ UNCHANGED pending

ReviewRetrieve(u, product_pk, pk) ==
    LET req == Req("reviews", "GET", u, product_pk, pk, <<>>)
        qs == ReviewQueryset(product_pk)
    IN  /\ IF ~Exists(qs, pk) THEN Answer(req, NotFound)
           ELSE Answer(req, Resp(HTTP_200_OK, "ReviewSerializer", ReviewSerializer(Row(qs, pk))))
        /\ UNCHANGED pending

\* create(); serializers.py ReviewSerializer.create (modelled from the
\* specification: the review is created under context["product_id"]); a
\* product_id that is no product violates the foreign key (IntegrityError).
ReviewCreate(u, product_pk, data) ==
    LET req == Req("reviews", "POST", u, product_pk, 0, data)
        id == nextId.reviews
        context == ReviewSerializerContext(product_pk)
    IN  /\ NestedRows < MaxNestedRows
        /\ IF ~Exists(products, context.product_id) THEN Answer(req, ServerError("IntegrityError"))
           ELSE LET row == [id |-> id, product |-> context.product_id, text |-> data.text]
                IN  /\ reviews' = reviews \cup {row}
                    /\ nextId' = [nextId EXCEPT !.reviews = id + 1]
                    /\ Respond(req, Resp(HTTP_201_CREATED, "ReviewSerializer", ReviewSerializer(row)))
                    /\ UNCHANGED <<products, collections, carts, cartItems, customers, orders, orderItems>>
        /\ UNCHANGED pending

ReviewUpdate(u, product_pk, pk, data) ==
    LET req == Req("reviews", "PUT", u, product_pk, pk, data)
        qs == ReviewQueryset(product_pk)
    IN  /\ IF ~Exists(qs, pk) THEN Answer(req, NotFound)
           ELSE LET row == [Row(qs, pk) EXCEPT !.text = data.text]
                IN  /\ reviews' = (reviews \ {Row(qs, pk)}) \cup {row}
                    /\ Respond(req, Resp(HTTP_200_OK, "ReviewSerializer", ReviewSerializer(row)))
                    /\ UNCHANGED <<products, collections, carts, cartItems, customers, orders,
                                   orderItems, nextId>>
        /\ UNCHANGED pending

ReviewDestroy(u, product_pk, pk) ==
    LET req == Req("reviews", "DELETE", u, product_pk, pk, <<>>)
        qs == ReviewQueryset(product_pk)
    IN  /\ IF ~Exists(qs, pk) THEN Answer(req, NotFound)
           ELSE /\ reviews' = reviews \ {Row(qs, pk)}
                /\ Respond(req, NoContent)
                /\ UNCHANGED <<products, collections, carts, cartItems, customers, orders,
                               orderItems, nextId>>
        /\ UNCHANGED pending

-----------------------------------------------------------------------------
(* CartItemViewSet: /carts/{cart_pk}/items/ *)

CartItemMethods == {"GET", "POST", "PATCH", "DELETE"}      \* http_method_names

\* get_serializer_class()
CartItemSerializerClassSwapped(method) ==
    IF method = "PATCH" THEN "AddCartItemSerializer"
    ELSE IF method = "POST" THEN "UpdateCartItemSerializer"
    ELSE "CartItemSerializer"
CartItemSerializerClass(method) ==
    IF method = "POST" THEN "AddCartItemSerializer"
    ELSE IF method = "PATCH" THEN "UpdateCartItemSerializer"
    ELSE "CartItemSerializer"

\* get_queryset(): CartItem.objects.filter(cart_id=self.kwargs["cart_pk"])
CartItemQueryset(cart_pk) == {ci \in cartItems : ci.cart = cart_pk}

\* get_serializer_context()
CartItemSerializerContext(cart_pk) == [cart_id |-> cart_pk]

CartItemData == [product : {1, 2}, quantity : Quantities \cup {0}]

\* serializers.py (modelled from the specification): the fields a serializer
\* class takes from the payload; the update shape takes the quantity only.
CartItemFields(class) ==
    IF class = "UpdateCartItemSerializer" THEN {"quantity"} ELSE {"product", "quantity"}

\* serializers.py (modelled from the specification): the fields taken must be
\* a quantity of at least one and a product of the store.
CartItemValid(class, data) ==
    /\ "quantity" \in CartItemFields(class) => data.quantity \in Quantities
    /\ "product" \in CartItemFields(class) => Exists(products, data.product)

\* The representation a serializer class gives of a cart item.
CartItemRepresentation(class, ci) ==
    IF class = "UpdateCartItemSerializer" THEN [quantity |-> ci.quantity]
    ELSE [id |-> ci.id, product |-> ci.product, quantity |-> ci.quantity]

CartItemList(u, cart_pk) ==
    LET req == Req("cartitems", "GET", u, cart_pk, 0, <<>>)
        class == CartItemSerializerClass("GET")
    IN  /\ Answer(req, Resp(HTTP_200_OK, class,
                            {CartItemRepresentation(class, ci) : ci \in CartItemQueryset(cart_pk)}))
        /\ UNCHANGED pending

CartItemRetrieve(u, cart_pk, pk) ==
    LET req == Req("cartitems", "GET", u, cart_pk, pk, <<>>)
        class == CartItemSerializerClass("GET")
        qs == CartItemQueryset(cart_pk)
    IN  /\ IF ~Exists(qs, pk) THEN Answer(req, NotFound)
           ELSE Answer(req, Resp(HTTP_200_OK, class, CartItemRepresentation(class, Row(qs, pk))))
        /\ UNCHANGED pending

\* create(); serializers.py AddCartItemSerializer.save (modelled from the
\* specification: the item is created in the cart context["cart_id"]); a
\* cart_id that is no cart, or a row without a product, violates the
\* constraints of the table (IntegrityError).
CartItemCreate(u, cart_pk, data) ==
    LET req == Req("cartitems", "POST", u, cart_pk, 0, data)
        class == CartItemSerializerClass("POST")
        context == CartItemSerializerContext(cart_pk)
        id == nextId.cartItems
    IN  /\ NestedRows < MaxNestedRows
        /\ IF ~CartItemValid(class, data) THEN Answer(req, BadRequest)
           ELSE IF context.cart_id \notin carts \/ "product" \notin CartItemFields(class)
                THEN Answer(req, ServerError("IntegrityError"))
           ELSE LET row == [id |-> id, cart |-> context.cart_id, product |-> data.product,
                            quantity |-> data.quantity]
                IN  /\ cartItems' = cartItems \cup {row}
                    /\ nextId' = [nextId EXCEPT !.cartItems = id + 1]
                    /\ Respond(req, Resp(HTTP_201_CREATED, class, CartItemRepresentation(class, row)))
                    /\ UNCHANGED <<products, collections, reviews, carts, customers, orders, orderItems>>
        /\ UNCHANGED pending

\* partial_update(): the fields of the serializer class chosen for PATCH are
\* the ones written
CartItemUpdate(u, cart_pk, pk, data) ==
    LET req == Req("cartitems", "PATCH", u, cart_pk, pk, data)
        class == CartItemSerializerClass("PATCH")
        qs == CartItemQueryset(cart_pk)
    IN  /\ IF ~Exists(qs, pk) THEN Answer(req, NotFound)
           ELSE IF ~CartItemValid(class, data) THEN Answer(req, BadRequest)
           ELSE LET old == Row(qs, pk)
                    row == [old EXCEPT !.quantity = data.quantity,
                                       !.product = IF "product" \in CartItemFields(class)
                                                   THEN data.product ELSE old.product]
                IN  /\ cartItems' = (cartItems \ {old}) \cup {row}
                    /\ Respond(req, Resp(HTTP_200_OK, class, CartItemRepresentation(class, row)))
                    /\ UNCHANGED <<products, collections, reviews, carts, customers, orders,
                                   orderItems, nextId>>
        /\ UNCHANGED pending

CartItemDestroy(u, cart_pk, pk) ==
    LET req == Req("cartitems", "DELETE", u, cart_pk, pk, <<>>)
        qs == CartItemQueryset(cart_pk)
    IN  /\ IF ~Exists(qs, pk) THEN Answer(req, NotFound)
           ELSE /\ cartItems' = cartItems \ {Row(qs, pk)}
                /\ Respond(req, NoContent)
                /\ UNCHANGED <<products, collections, reviews, carts, customers, orders,
                               orderItems, nextId>>
        /\ UNCHANGED pending

\* PUT is not among http_method_names
CartItemPut(u, cart_pk, pk) ==
    LET req == Req("cartitems", "PUT", u, cart_pk, pk, <<>>)
    IN  /\ IF "PUT" \notin CartItemMethods THEN Answer(req, MethodNotAllowed)
           ELSE Answer(req, Resp(HTTP_200_OK, CartItemSerializerClass("PUT"), <<>>))
        /\ UNCHANGED pending

-----------------------------------------------------------------------------
(* Specifications *)

\* Products, collections and the order items that reference products.
CatalogCallers == {"u1", "admin"}
CatalogCheckouts == {[lines |-> {}]} \cup {[lines |-> {p}] : p \in ProductIds}

NextCatalog ==
    \/ \E u \in CatalogCallers, data \in ProductData : ProductCreate(u, data)
    \/ \E u \in CatalogCallers, pk \in ProductIds, data \in ProductData : ProductUpdate(u, pk, data)
    \/ \E u \in CatalogCallers, pk \in ProductIds : ProductDestroy(u, pk)
    \/ \E u \in CatalogCallers, data \in CollectionData : CollectionCreate(u, data)
    \/ \E u \in CatalogCallers, pk \in CollectionIds, data \in CollectionData : CollectionUpdate(u, pk, data)
    \/ \E u \in CatalogCallers, pk \in CollectionIds : CollectionDestroy(u, pk)
    \/ \E data \in CatalogCheckouts : OrderCreate("u1", data)

SpecCatalog == Init /\ [][NextCatalog]_vars

\* ProductViewSet.destroy as two steps of one worker, other requests in
\* between: the permission check and the count query of the guard, then
\* super().destroy().
DestroyBegin(w, u, pk) ==
    LET req == Req("products", "DELETE", u, 0, pk, <<>>)
    IN  /\ pending[w] = NoDestroy
        /\ IF ~IsAdminOrReadOnly("DELETE", u) THEN Answer(req, Denied) /\ UNCHANGED pending
           ELSE IF ProductDestroyGuard(pk)
                THEN /\ Answer(req, Resp(HTTP_405_METHOD_NOT_ALLOWED, "error", ProductError))
                     /\ UNCHANGED pending
           ELSE /\ pending' = [pending EXCEPT ![w] = [pk |-> pk, user |-> u]]
                /\ UNCHANGED <<tables, request, response>>

DestroyFinish(w) ==
    /\ pending[w] # NoDestroy
    /\ ProductSuperDestroy(Req("products", "DELETE", pending[w].user, 0, pending[w].pk, <<>>),
                           pending[w].pk)
    /\ pending' = [pending EXCEPT ![w] = NoDestroy]

\* Product deletions of two workers interleaved with checkouts.
NextRace ==
    \/ \E data \in CollectionData : CollectionCreate("admin", data)
    \/ \E data \in ProductData : ProductCreate("admin", data)
    \/ \E w \in Workers, u \in CatalogCallers, pk \in ProductIds : DestroyBegin(w, u, pk)
    \/ \E w \in Workers : DestroyFinish(w)
    \/ \E data \in CatalogCheckouts : OrderCreate("u1", data)

SpecRace == Init /\ [][NextRace]_vars

\* The store after the admin has created collection 1 and product 1 in it.
InitOrders ==
    /\ products = {[id |-> 1, collection |-> 1]}
    /\ collections = {[id |-> 1, title |-> "a"]}
    /\ reviews = {}
    /\ carts = {}
    /\ cartItems = {}
    /\ customers = {[id |-> 1, user |-> "u1", phone |-> "p"], [id |-> 2, user |-> "u2", phone |-> "p"]}
    /\ orders = {}
    /\ orderItems = {}
    /\ nextId = [products |-> 2, collections |-> 2, reviews |-> 1, carts |-> 1,
                 cartItems |-> 1, customers |-> 3, orders |-> 1]
    /\ request = Req("none", "NONE", Anon, 0, 0, <<>>)
    /\ response = Resp(0, "none", "")
    /\ pending = [w \in Workers |-> NoDestroy]

\* Orders: checkouts, reads, updates and deletions by every caller, and the
\* deletion of customer records.
NextOrders ==
    \/ \E u \in Callers, data \in CheckoutData : OrderCreate(u, data)
    \/ \E u \in Callers : OrderList(u)
    \/ \E u \in Callers, pk \in OrderIds : OrderRetrieve(u, pk)
    \/ \E u \in Callers, pk \in OrderIds, data \in OrderUpdateData : OrderUpdate(u, pk, data)
    \/ \E u \in Callers, pk \in OrderIds : OrderDestroy(u, pk)
    \/ \E u \in Callers, pk \in OrderIds : OrderPut(u, pk)
    \/ \E u \in Users, pk \in CustomerIds : CustomerDestroy(u, pk)

SpecOrders == InitOrders /\ [][NextOrders]_vars

\* Customers: the standard routes and the two custom actions, by every caller.
NextCustomers ==
    \/ \E u \in Callers, data \in CustomerData : CustomerCreate(u, data)
    \/ \E u \in Callers, pk \in CustomerIds : CustomerRetrieve(u, pk)
    \/ \E u \in Callers, pk \in CustomerIds, data \in CustomerData : CustomerUpdate(u, pk, data)
    \/ \E u \in Callers, pk \in CustomerIds : CustomerDestroy(u, pk)
    \/ \E u \in Callers : Me(u, "GET", <<>>)
    \/ \E u \in Callers, data \in CustomerData : Me(u, "PUT", data)
    \/ \E u \in Callers, pk \in CustomerIds : History(u, pk)

SpecCustomers == Init /\ [][NextCustomers]_vars

\* The store after the admin has created collection 1 and products 1 and 2
\* in it, and carts 1 and 2 have been created.
InitNested ==
    /\ products = {[id |-> 1, collection |-> 1], [id |-> 2, collection |-> 1]}
    /\ collections = {[id |-> 1, title |-> "a"]}
    /\ reviews = {}
    /\ carts = {1, 2}
    /\ cartItems = {}
    /\ customers = {[id |-> 1, user |-> "u1", phone |-> "p"], [id |-> 2, user |-> "u2", phone |-> "p"]}
    /\ orders = {}
    /\ orderItems = {}
    /\ nextId = [products |-> 3, collections |-> 2, reviews |-> 1, carts |-> 3,
                 cartItems |-> 1, customers |-> 3, orders |-> 1]
    /\ request = Req("none", "NONE", Anon, 0, 0, <<>>)
    /\ response = Resp(0, "none", "")
    /\ pending = [w \in Workers |-> NoDestroy]

\* The nested routes: reviews under a product, items under a cart.
NextNested ==
    \/ \E p \in NestedParents : ReviewList(Anon, p)
    \/ \E p \in NestedParents, pk \in ReviewIds : ReviewRetrieve(Anon, p, pk)
    \/ \E p \in NestedParents, data \in ReviewData : ReviewCreate(Anon, p, data)
    \/ \E p \in NestedParents, pk \in ReviewIds, data \in ReviewData : ReviewUpdate(Anon, p, pk, data)
    \/ \E p \in NestedParents, pk \in ReviewIds : ReviewDestroy(Anon, p, pk)
    \/ \E c \in NestedParents : CartItemList(Anon, c)
    \/ \E c \in NestedParents, pk \in CartItemIds : CartItemRetrieve(Anon, c, pk)
    \/ \E c \in NestedParents, data \in CartItemData : CartItemCreate(Anon, c, data)
    \/ \E c \in NestedParents, pk \in CartItemIds, data \in CartItemData : CartItemUpdate(Anon, c, pk, data)
    \/ \E c \in NestedParents, pk \in CartItemIds : CartItemDestroy(Anon, c, pk)
    \/ \E c \in NestedParents, pk \in CartItemIds : CartItemPut(Anon, c, pk)

SpecNested == InitNested /\ [][NextNested]_vars

-----------------------------------------------------------------------------
(* Claims about the deletion guards *)

\* The step just taken answered a request to `view` with `method`.
Handled(view, method) == request'.view = view /\ request'.method = method

\* C1: a DELETE of product p by a caller allowed to delete is answered with
\* the 405 error body and leaves the products and the order items as they
\* were when an order item references p; when none does and p exists, it is
\* answered 204, p is gone and the order items are as they were.
C1_ProductDeleteGuard ==
    [][(Handled("products", "DELETE") /\ IsAdminOrReadOnly("DELETE", request'.user)) =>
          LET p == request'.pk
          IN  IF \E oi \in orderItems : oi.product = p
              THEN /\ response' = Resp(HTTP_405_METHOD_NOT_ALLOWED, "error", ProductError)
                   /\ products' = products
                   /\ orderItems' = orderItems
              ELSE Exists(products, p) =>
                   /\ response'.status = HTTP_204_NO_CONTENT
                   /\ ~Exists(products', p)
                   /\ orderItems' = orderItems
                   /\ \A q \in products : q.id # p => q \in products']_vars

\* C1 witness: a product delete was refused by the guard while an order item references it
C1_Witness ==
    /\ request.view = "products" /\ request.method = "DELETE"
    /\ response = Resp(HTTP_405_METHOD_NOT_ALLOWED, "error", ProductError)
    /\ Exists(products, request.pk)
    /\ \E oi \in orderItems : oi.product = request.pk

\* C2: a DELETE of collection c by a caller allowed to delete is answered
\* with the 405 'contains one or more products' body and leaves c in place
\* when a product references c; when none does and c exists, it is answered
\* 204 and c is gone, whatever the other collections hold.
C2_CollectionDeleteGuard ==
    [][(Handled("collections", "DELETE") /\ IsAdminOrReadOnly("DELETE", request'.user)) =>
          LET c == request'.pk
          IN  IF \E p \in products : p.collection = c
              THEN /\ response' = Resp(HTTP_405_METHOD_NOT_ALLOWED, "error", CollectionError)
                   /\ collections' = collections
              ELSE Exists(collections, c) =>
                   /\ response'.status = HTTP_204_NO_CONTENT
                   /\ ~Exists(collections', c)]_vars

-----------------------------------------------------------------------------
(* Claim about concurrent product deletions and checkouts *)

-----------------------------------------------------------------------------
(* Claims about orders *)

HasCustomer(u) == \E c \in customers : c.user = u
OwnOrders(u) == {o \in orders : \E c \in customers : c.user = u /\ o.customer = c.id}
VisibleOrders(u) == IF u \in Staff THEN orders ELSE OwnOrders(u)

\* C3: whatever orders were created, updated and deleted, a list by an
\* authenticated user who is staff or has a customer record is answered 200
\* with exactly the orders visible to that user (all for staff, else those
\* of the user's customer record); a retrieve answers 200 exactly for a
\* visible order; an update or delete never succeeds for a non-staff user.
C3_OrderScoping ==
    (request.view = "orders" /\ request.user \in Users) =>
        LET u == request.user
            served == u \in Staff \/ HasCustomer(u)
        IN  /\ (request.method = "GET" /\ request.pk = 0 /\ served) =>
                   /\ response.status = HTTP_200_OK
                   /\ response.body = {OrderSerializer(o, orderItems) : o \in VisibleOrders(u)}
            /\ (request.method = "GET" /\ request.pk # 0 /\ served) =>
                   IF Exists(VisibleOrders(u), request.pk)
                   THEN /\ response.status = HTTP_200_OK
                        /\ response.body = OrderSerializer(Row(orders, request.pk), orderItems)
                   ELSE response.status = HTTP_404_NOT_FOUND
            /\ (request.method = "GET" /\ response.status = HTTP_200_OK) => served
            /\ (request.method \in {"PATCH", "DELETE"} /\ u \notin Staff) => response = Denied

\* C3 witness: a non-staff user listed orders and got their own, while an
\* order of another customer exists and is not in the answer
C3_Witness ==
    /\ request.view = "orders" /\ request.method = "GET" /\ request.pk = 0
    /\ request.user \in Users \ Staff
    /\ response.status = HTTP_200_OK
    /\ response.body # {}
    /\ \E o \in orders : \A b \in response.body : b.id # o.id

-----------------------------------------------------------------------------
(* Claims about customers and permissions *)

MutatingMethods == {"POST", "PUT", "PATCH", "DELETE"}

\* The caller owns the record the request acts on: their own customer
\* record, an order of their customer record, or a record created for themselves.
Owns(u, req) ==
    CASE req.view = "customers/me" -> TRUE
      [] req.view = "customers" /\ req.method = "POST" -> TRUE
      [] req.view = "customers" /\ req.method # "POST" ->
            \E c \in customers : c.id = req.pk /\ c.user = u
      [] req.view = "orders" /\ req.method = "POST" -> TRUE
      [] req.view = "orders" /\ req.method # "POST" ->
            \E o \in orders : o.id = req.pk /\ o \in OwnOrders(u)
      [] OTHER -> FALSE

\* C4: a mutating request on a product, collection, customer or order
\* changes the tables only when the caller is an admin or owns the record.
C4_MutationsAdminOrOwner ==
    [][(/\ request'.view \in {"products", "collections", "customers", "customers/me", "orders"}
        /\ request'.method \in MutatingMethods
        /\ tables' # tables)
       => (request'.user \in Staff \/ Owns(request'.user, request'))]_vars

\* C7: for an authenticated caller with a customer record, GET on me answers
\* that record's profile and changes nothing; PUT on me with valid data
\* sets the profile fields of that record, changes no other row and answers
\* the updated profile; GET on history answers the placeholder text for
\* every customer id and changes nothing.
C7_MeAndHistory ==
    [][(request'.user \in Users /\ HasCustomer(request'.user)) =>
          LET u == request'.user
              own == CHOOSE c \in customers : c.user = u
          IN  /\ Handled("customers/me", "GET") =>
                    /\ response' = Resp(HTTP_200_OK, "CustomerSerializer", CustomerSerializer(own))
                    /\ tables' = tables
              /\ (Handled("customers/me", "PUT") /\ CustomerValid(request'.data)) =>
                    LET new == [own EXCEPT !.phone = request'.data.phone]
                    IN  /\ customers' = (customers \ {own}) \cup {new}
                        /\ response' = Resp(HTTP_200_OK, "CustomerSerializer", CustomerSerializer(new))
                        /\ UNCHANGED <<products, collections, reviews, carts, cartItems, orders,
                                       orderItems, nextId>>
              /\ Handled("customers/history", "GET") =>
                    /\ response' = Resp(HTTP_200_OK, "text", Placeholder)
                    /\ tables' = tables]_vars

\* C7 witness: a caller changed their own profile through me while
\* another customer's record kept the initial phone
C7_Witness ==
    /\ request.view = "customers/me" /\ request.method = "PUT"
    /\ response.status = HTTP_200_OK
    /\ \E c \in customers : c.user = request.user /\ c.phone = "q" /\ response.body.phone = "q"
    /\ \E c \in customers : c.user # request.user /\ c.phone = "p"

\* C10: me and history are answered only for a caller who passes the
\* permission classes their @action decorators declare.
C10_DeclaredPermissionsEnforced ==
    (request.view \in {"customers/me", "customers/history"} /\ response.status = HTTP_200_OK)
        => CustomerDeclaredPermission(request.view, request.user)

-----------------------------------------------------------------------------
(* Claims about the nested routes *)

\* C6: on /carts/c/items/ a POST is answered in the add-item shape and
\* adds one item, in cart c, with the product and quantity posted; a PATCH
\* of an item of c is answered in the update shape and sets its quantity
\* only, every other item and field staying as it was; a GET is answered in
\* the default shape and DELETE selects it too; a PUT is refused with 405
\* and changes nothing.
C6_CartItemShapes ==
    [][request'.view = "cartitems" =>
          LET c == request'.parent
              pk == request'.pk
              data == request'.data
          IN  /\ Handled("cartitems", "POST") =>
                    IF c \in carts /\ Exists(products, data.product) /\ data.quantity \in Quantities
                    THEN /\ response'.status = HTTP_201_CREATED
                         /\ response'.kind = "AddCartItemSerializer"
                         /\ \E new \in cartItems' :
                                /\ new \notin cartItems /\ cartItems' = cartItems \cup {new}
                                /\ new.cart = c
                                /\ new.product = data.product /\ new.quantity = data.quantity
                    ELSE cartItems' = cartItems /\ response'.status # HTTP_201_CREATED
              /\ Handled("cartitems", "PATCH") =>
                    IF (\E it \in cartItems : it.id = pk /\ it.cart = c) /\ data.quantity \in Quantities
                    THEN LET it == CHOOSE x \in cartItems : x.id = pk
                         IN  /\ response' = Resp(HTTP_200_OK, "UpdateCartItemSerializer",
                                                 [quantity |-> data.quantity])
                             /\ cartItems' = (cartItems \ {it})
                                                 \cup {[it EXCEPT !.quantity = data.quantity]}
                    ELSE cartItems' = cartItems /\ response'.status # HTTP_200_OK
              /\ (Handled("cartitems", "GET") /\ response'.status = HTTP_200_OK) =>
                    response'.kind = "CartItemSerializer"
              /\ Handled("cartitems", "DELETE") =>
                    CartItemSerializerClass("DELETE") = "CartItemSerializer"
              /\ Handled("cartitems", "PUT") =>
                    response' = MethodNotAllowed /\ tables' = tables]_vars

\* C6 witness: a PATCH changed the quantity of one of two items
C6_Witness ==
    /\ request.view = "cartitems" /\ request.method = "PATCH"
    /\ response.status = HTTP_200_OK /\ response.body.quantity = 2
    /\ Cardinality(cartItems) = 2
    /\ \E it \in cartItems : it.id = request.pk /\ it.quantity = 2 /\ it.product # request.data.product

\* What a request on a nested route with parent p can reach of `table`,
\* whose rows name their parent in `parent(row)`.
Scoped(table, table2, parent(_), represent(_)) ==
    LET p == request'.parent
        pk == request'.pk
        mine == {r \in table : parent(r) = p}
    IN  /\ \A r \in table : parent(r) # p => r \in table2
        /\ \A r \in table2 : r \notin table => parent(r) = p
        /\ (request'.method = "GET" /\ pk = 0) =>
               response'.body = {represent(r) : r \in mine}
        /\ (request'.method \in {"GET", "PUT", "PATCH", "DELETE"} /\ pk # 0) =>
               IF Exists(mine, pk)
               THEN response'.status \in {HTTP_200_OK, HTTP_204_NO_CONTENT, HTTP_400_BAD_REQUEST,
                                          HTTP_405_METHOD_NOT_ALLOWED}
               ELSE response'.status \in {HTTP_404_NOT_FOUND, HTTP_405_METHOD_NOT_ALLOWED}
                        /\ table2 = table
        /\ (request'.method = "GET" /\ pk # 0 /\ response'.status = HTTP_200_OK) =>
               response'.body = represent(Row(mine, pk))

ReviewParent(r) == r.product
CartItemParent(ci) == ci.cart
CartItemDefault(ci) == CartItemRepresentation("CartItemSerializer", ci)

\* C8: a request on /products/p/reviews/ or /carts/p/items/ lists exactly
\* the rows whose parent is p, retrieves, updates or deletes a row exactly
\* when its parent is p (404 otherwise), leaves every row of another parent
\* as it was, and every row it adds or rewrites has parent p.
C8_NestedScoping ==
    [][/\ request'.view = "reviews" =>
              Scoped(reviews, reviews', ReviewParent, ReviewSerializer)
       /\ request'.view = "cartitems" =>
              Scoped(cartItems, cartItems', CartItemParent, CartItemDefault)]_vars

\* C8 witness: a list under one product returned its review while a review
\* of another product exists
C8_Witness ==
    /\ request.view = "reviews" /\ request.method = "GET" /\ request.pk = 0
    /\ response.status = HTTP_200_OK /\ response.body # {}
    /\ \E r \in reviews : r.product # request.parent
    /\ \E r \in reviews : r.product = request.parent

=============================================================================
